---- MODULE Spec2Model ----
(***************************************************************************)
(* A model of AMFInstrument (src/instrument.py): the schema registry       *)
(* loader, the metadata merger, the filename composer and the dataset      *)
(* assembler.                                                              *)
(*                                                                         *)
(* Text that the code splits, strips or joins is a sequence of one-letter  *)
(* strings; dictionary keys and attribute names, which the code only       *)
(* compares and looks up, are TLA+ strings.  A Python dict is a function   *)
(* whose DOMAIN is the dict's key set.                                     *)
(***************************************************************************)
EXTENDS Integers, Sequences, FiniteSets, TLC

VARIABLES
    pc,                 \* where the modelled call stands
    varfile,            \* read_amf_variables: the rows csv.DictReader yields
    line_no,            \* read_amf_variables: number of rows consumed
    out,                \* read_amf_variables: the local dict `out`
    current_var,        \* read_amf_variables: the local `current_var`
    metafiles,          \* get_metadata: the sources, each a list of csv rows
    file_no,            \* get_metadata: index of the file being read
    row_no,             \* get_metadata: rows consumed of that file
    raw_metadata,       \* get_metadata: the local dict `raw_metadata`
    self,               \* the instance's attributes (self.__dict__)
    call                \* the last method call: name, arguments, outcome

vars == <<pc, varfile, line_no, out, current_var, metafiles, file_no, row_no,
          raw_metadata, self, call>>

-----------------------------------------------------------------------------
(* Python values *)

\* a local name that has not been bound
Unset == "<unset>"

\* the empty dict {}
EmptyDict == [k \in {} |-> {}]

\* d[k] = v
DictSet(d, k, v) == [x \in (DOMAIN d) \cup {k} |-> IF x = k THEN v ELSE d[x]]

\* d.pop(k, None)
DictPop(d, k) == [x \in (DOMAIN d) \ {k} |-> d[x]]

-----------------------------------------------------------------------------
(* Schema registry: read_amf_variables *)

\* bound: number of rows of a schema source
MaxRows == 4

SchemaNames == {"WS", "T"}
SchemaAttributes == {"units", "long_name"}
SchemaValues == {<<"a">>, <<"b">>}

\* the rows csv.DictReader yields: a variable row or an attribute row
SchemaRows ==
    [Variable : SchemaNames, Attribute : {""}, Value : {<<>>}]
    \cup [Variable : {""}, Attribute : SchemaAttributes, Value : SchemaValues]

\* the state of the loop of read_amf_variables before any row
ReaderStart == [out |-> EmptyDict, current_var |-> Unset, raised |-> FALSE]

\* mutant of ReadLine: a re-declared variable keeps its entry
ReadLineKeep(st, line) ==
    IF Len(line.Variable) > 0
    THEN [st EXCEPT !.out = IF line.Variable \in DOMAIN st.out THEN st.out
                             ELSE DictSet(st.out, line.Variable, EmptyDict),
                    !.current_var = line.Variable]
    ELSE IF st.current_var = Unset
         THEN [st EXCEPT !.raised = TRUE]
         ELSE [st EXCEPT !.out = DictSet(st.out, st.current_var,
                                   DictSet(st.out[st.current_var],
                                           line.Attribute, line.Value))]

\* mutant of ReadLine: an attribute row with no current variable is skipped
ReadLineSkip(st, line) ==
    IF Len(line.Variable) > 0
    THEN [st EXCEPT !.out = DictSet(st.out, line.Variable, EmptyDict),
                    !.current_var = line.Variable]
    ELSE IF st.current_var = Unset
         THEN st
         ELSE [st EXCEPT !.out = DictSet(st.out, st.current_var,
                                   DictSet(st.out[st.current_var],
                                           line.Attribute, line.Value))]

\* one pass of the loop body; reading the unbound current_var raises
ReadLine(st, line) ==
    IF Len(line.Variable) > 0
    THEN [st EXCEPT !.out = DictSet(st.out, line.Variable, EmptyDict),
                    !.current_var = line.Variable]
    ELSE IF st.current_var = Unset
         THEN [st EXCEPT !.raised = TRUE]
         ELSE [st EXCEPT !.out = DictSet(st.out, st.current_var,
                                   DictSet(st.out[st.current_var],
                                           line.Attribute, line.Value))]

\* read_amf_variables as a whole: the loop over every row, then `return out`
RECURSIVE ReadLines(_, _)
ReadLines(st, rows) ==
    IF rows = <<>> \/ st.raised THEN st
    ELSE ReadLines(ReadLine(st, Head(rows)), Tail(rows))

ReadAmfVariables(rows) == ReadLines(ReaderStart, rows)

\* the loop, one row per step
ReadNextLine ==
    /\ pc = "reading"
    /\ line_no < Len(varfile)
    /\ LET st == ReadLine([out |-> out, current_var |-> current_var,
                           raised |-> FALSE], varfile[line_no + 1])
       IN /\ out' = st.out
          /\ current_var' = st.current_var
          /\ pc' = IF st.raised THEN "raised" ELSE "reading"
    /\ line_no' = line_no + 1
    /\ UNCHANGED <<varfile, metafiles, file_no, row_no, raw_metadata, self, call>>

\* `return out`
ReturnOut ==
    /\ pc = "reading"
    /\ line_no = Len(varfile)
    /\ pc' = "returned"
    /\ UNCHANGED <<varfile, line_no, out, current_var, metafiles, file_no,
                   row_no, raw_metadata, self, call>>

RECURSIVE SeqsUpTo(_, _)
SeqsUpTo(S, n) ==
    IF n = 0 THEN {<<>>}
    ELSE LET shorter == SeqsUpTo(S, n - 1)
         IN shorter \cup {Append(s, x) : s \in {t \in shorter : Len(t) = n - 1}, x \in S}

NoError == [type |-> "", what |-> ""]

NoCall == [op |-> "none", arg |-> <<>>, error |-> NoError, steps |-> <<>>]

InitSchema ==
    /\ pc = "reading"
    /\ varfile \in SeqsUpTo(SchemaRows, MaxRows)
    /\ line_no = 0
    /\ out = EmptyDict
    /\ current_var = Unset
    /\ metafiles = <<>>
    /\ file_no = 0
    /\ row_no = 0
    /\ raw_metadata = EmptyDict
    /\ self = EmptyDict
    /\ call = NoCall

NextSchema == ReadNextLine \/ ReturnOut

SpecSchema == InitSchema /\ [][NextSchema]_vars

-----------------------------------------------------------------------------
(* Metadata merger: get_metadata *)

\* bound: number of rows of all the metadata sources together
MaxMetaRows == 3

MetaValues == {<<"A">>, <<"B">>}

\* the rows csv.reader yields: lists of zero to three fields
MetaRows ==
    { <<>>, <<"platform_name">>, <<"platform_name", <<"A">>, <<"B">>>> }
    \cup {<<k, v>> : k \in {"platform_name", "title"}, v \in MetaValues}
    \cup {<<"Variable", <<"A">>>>}

\* mutant of MetaRow: the first row carrying a key wins
MetaRowFirst(store, row) ==
    IF Len(row) = 2 /\ row[1] # "Variable" /\ row[1] \notin DOMAIN store
    THEN DictSet(store, row[1], Tail(row))
    ELSE store

\* the loop body of get_metadata: raw_metadata[row[0]] = row[1:]
MetaRow(store, row) ==
    IF Len(row) = 2 /\ row[1] # "Variable"
    THEN DictSet(store, row[1], Tail(row))
    ELSE store

RECURSIVE MetaFile(_, _)
MetaFile(store, rows) ==
    IF rows = <<>> THEN store
    ELSE MetaFile(MetaRow(store, Head(rows)), Tail(rows))

\* get_metadata as a whole: every file in order, every row in order
RECURSIVE MetaFiles(_, _)
MetaFiles(store, files) ==
    IF files = <<>> THEN store
    ELSE MetaFiles(MetaFile(store, Head(files)), Tail(files))

GetMetadata(files) == MetaFiles(EmptyDict, files)

\* the loops, one row per step
ReadMetaRow ==
    /\ pc = "merging"
    /\ file_no <= Len(metafiles)
    /\ row_no < Len(metafiles[file_no])
    /\ raw_metadata' = MetaRow(raw_metadata, metafiles[file_no][row_no + 1])
    /\ row_no' = row_no + 1
    /\ UNCHANGED <<pc, varfile, line_no, out, current_var, metafiles, file_no,
                   self, call>>

\* the end of one file: the `with` block closes, the next file is opened
NextMetaFile ==
    /\ pc = "merging"
    /\ file_no <= Len(metafiles)
    /\ row_no = Len(metafiles[file_no])
    /\ file_no' = file_no + 1
    /\ row_no' = 0
    /\ UNCHANGED <<pc, varfile, line_no, out, current_var, metafiles,
                   raw_metadata, self, call>>

\* `return raw_metadata`
ReturnMetadata ==
    /\ pc = "merging"
    /\ file_no > Len(metafiles)
    /\ pc' = "merged"
    /\ UNCHANGED <<varfile, line_no, out, current_var, metafiles, file_no,
                   row_no, raw_metadata, self, call>>

\* every way to cut a list of rows into consecutive non-empty files
RECURSIVE Splits(_)
Splits(rows) ==
    IF rows = <<>> THEN {<<>>}
    ELSE UNION { { <<SubSeq(rows, 1, k)>> \o rest :
                     rest \in Splits(SubSeq(rows, k + 1, Len(rows))) } :
                 k \in 1..Len(rows) }

InitMeta ==
    /\ pc = "merging"
    /\ varfile = <<>>
    /\ line_no = 0
    /\ out = EmptyDict
    /\ current_var = Unset
    /\ metafiles \in UNION {Splits(rows) : rows \in SeqsUpTo(MetaRows, MaxMetaRows)}
    /\ file_no = 1
    /\ row_no = 0
    /\ raw_metadata = EmptyDict
    /\ self = EmptyDict
    /\ call = NoCall

NextMeta == ReadMetaRow \/ NextMetaFile \/ ReturnMetadata

SpecMeta == InitMeta /\ [][NextMeta]_vars

-----------------------------------------------------------------------------
(* Text *)

Chr_time == <<"t", "i", "m", "e">>
Chr_latitude == <<"l", "a", "t", "i", "t", "u", "d", "e">>
Chr_longitude == <<"l", "o", "n", "g", "i", "t", "u", "d", "e">>

\* the index of the first sep in s, 0 when there is none
RECURSIVE Find(_, _, _)
Find(s, sep, i) ==
    IF i > Len(s) THEN 0
    ELSE IF s[i] = sep THEN i
    ELSE Find(s, sep, i + 1)

\* s.split(sep)
RECURSIVE Split(_, _)
Split(s, sep) ==
    LET i == Find(s, sep, 1)
    IN IF i = 0 THEN <<s>>
       ELSE <<SubSeq(s, 1, i - 1)>> \o Split(SubSeq(s, i + 1, Len(s)), sep)

\* s.strip()
RECURSIVE Strip(_)
Strip(s) ==
    IF s = <<>> THEN s
    ELSE IF Head(s) = " " THEN Strip(Tail(s))
    ELSE IF s[Len(s)] = " " THEN Strip(SubSeq(s, 1, Len(s) - 1))
    ELSE s

Digits == <<"0", "1", "2", "3", "4", "5", "6", "7", "8", "9">>

\* str(n) of an int
RECURSIVE Str(_)
Str(n) ==
    IF n < 0 THEN <<"-">> \o Str(0 - n)
    ELSE IF n < 10 THEN <<Digits[n + 1]>>
    ELSE Str(n \div 10) \o <<Digits[(n % 10) + 1]>>

\* sep.join(elements)
RECURSIVE Join(_, _)
Join(sep, elements) ==
    IF elements = <<>> THEN <<>>
    ELSE IF Len(elements) = 1 THEN elements[1]
    ELSE elements[1] \o sep \o Join(sep, Tail(elements))

-----------------------------------------------------------------------------
(* The netCDF4 Dataset the code writes through *)

\* Dataset(path, "w"): no dimensions, no variables, no global attributes
NewDataset == [dimensions |-> {}, variables |-> EmptyDict, attrs |-> EmptyDict]

\* the outcome of a library call or of a method: the new value and the error
Ok(v) == [value |-> v, error |-> NoError]
Raised(v, type, what) == [value |-> v, error |-> [type |-> type, what |-> what]]

\* Dataset.createDimension(name, size): a name in use is refused
CreateDimension(ds, name) ==
    IF name \in ds.dimensions
    THEN Raised(ds, "RuntimeError", "createDimension")
    ELSE Ok([ds EXCEPT !.dimensions = @ \cup {name}])

\* Dataset.createVariable(name, datatype, dimensions, fill_value): every
\* dimension must exist already, and a name in use is refused
CreateVariable(ds, name, datatype, dimensions, fill_value) ==
    IF \E i \in 1..Len(dimensions) : dimensions[i] \notin ds.dimensions
    THEN Raised(ds, "ValueError", "createVariable")
    ELSE IF name \in DOMAIN ds.variables
    THEN Raised(ds, "RuntimeError", "createVariable")
    ELSE Ok([ds EXCEPT !.variables = DictSet(@, name,
                [datatype |-> datatype, dimensions |-> dimensions,
                 fill_value |-> fill_value, attrs |-> EmptyDict,
                 data |-> <<>>])])

\* variable.<attribute> = value
SetVarAttr(ds, name, attribute, value) ==
    [ds EXCEPT !.variables[name].attrs = DictSet(@, attribute, value)]

\* variable[:] = data
SetVarData(ds, name, data) == [ds EXCEPT !.variables[name].data = data]

\* dataset.<attribute> = value
SetGlobalAttr(ds, attribute, value) ==
    [ds EXCEPT !.attrs = DictSet(@, attribute, value)]

-----------------------------------------------------------------------------
(* AMFInstrument *)

\* self.base_time = datetime(1970,1,1,0,0,0), in seconds since the epoch
BaseTime == 0

\* mutant of Outfile: the version is joined without its 'v'
OutfileNoV(instrument, platform, start, data_product, version) ==
    Join(<<"_">>, <<instrument, platform, start, data_product, Str(version)>>)
        \o <<".", "n", "c">>

\* "_".join(file_elements) + '.nc'
Outfile(instrument, platform, start, data_product, version) ==
    Join(<<"_">>, <<instrument, platform, start, data_product,
                    <<"v">> \o Str(version)>>) \o <<".", "n", "c">>

\* filename(data_product, version): the elements are read in list order
Filename(s, data_product, version) ==
    IF "instrument_name" \notin DOMAIN s
    THEN Raised(s, "AttributeError", "instrument_name")
    ELSE IF "platform_name" \notin DOMAIN s.raw_metadata
    THEN Raised(s, "KeyError", "platform_name")
    ELSE IF "time_coverage_start" \notin DOMAIN s
    THEN Raised(s, "AttributeError", "time_coverage_start")
    ELSE Ok(DictSet(s, "outfile",
                Outfile(s.instrument_name, s.raw_metadata.platform_name[1],
                        s.time_coverage_start, data_product, version)))

\* the attributes add_standard_time gives the time variable
TimeAttrs(ds) ==
    LET a1 == SetVarAttr(ds, Chr_time, "units", "seconds since 1970-01-01 00:00:00")
        a2 == SetVarAttr(a1, Chr_time, "axis", "T")
        a3 == SetVarAttr(a2, Chr_time, "standard_name", "time")
        a4 == SetVarAttr(a3, Chr_time, "long_name",
                         "Time (seconds since 1970-01-01 00:00:00)")
        a5 == SetVarAttr(a4, Chr_time, "calendar", "standard")
        a6 == SetVarAttr(a5, Chr_time, "type", "float64")
    IN SetVarAttr(a6, Chr_time, "dimension", "time")

\* add_standard_time(): the time dimension, the time variable, the coverage
\* attributes of the dataset (a timestamp t formatted with attribtimeformat
\* is written <<"attribtimeformat", t>>)
AddStandardTime(s) ==
    IF "dataset" \notin DOMAIN s
    THEN Raised(s, "AttributeError", "dataset")
    ELSE LET dim == CreateDimension(s.dataset, Chr_time)
         IN IF dim.error # NoError THEN [dim EXCEPT !.value = s]
            ELSE IF "rawdata" \notin DOMAIN s
            THEN Raised(DictSet(s, "dataset", dim.value), "AttributeError", "rawdata")
            ELSE
            LET index == s.rawdata.index
                offsets == [i \in 1..Len(index) |-> index[i] - BaseTime]
                s1 == DictSet(s, "rawdata", DictSet(s.rawdata, "timeoffsets", offsets))
                var == CreateVariable(dim.value, Chr_time, "float64", <<Chr_time>>, "default")
            IN IF var.error # NoError
               THEN [var EXCEPT !.value = DictSet(s1, "dataset", var.value)]
               ELSE
               LET ds1 == SetVarData(TimeAttrs(var.value), Chr_time, offsets)
               IN IF index = <<>>
                  THEN Raised(DictSet(s1, "dataset", ds1), "IndexError", "index")
                  ELSE Ok(DictSet(s1, "dataset",
                         SetGlobalAttr(
                           SetGlobalAttr(ds1, "time_coverage_start",
                                         <<"attribtimeformat", index[1]>>),
                           "time_coverage_end",
                           <<"attribtimeformat", index[Len(index)]>>)))

\* setup_dataset(product, version); git_ok tells whether the two git queries
\* answer, and the output file is taken to open.  steps lists the calls it
\* makes, in order.
SetupDataset(s, product, version, git_ok) ==
    LET name == Filename(s, product, version)
    IN IF name.error # NoError
       THEN [value |-> s, error |-> name.error, steps |-> <<"filename">>]
       ELSE
       LET s1 == DictSet(name.value, "dataset", NewDataset)
       IN IF ~git_ok
          THEN [value |-> s1,
                error |-> [type |-> "CalledProcessError", what |-> "git"],
                steps |-> <<"filename", "Dataset", "check_output">>]
          ELSE
          LET ds1 == SetGlobalAttr(
                       SetGlobalAttr(NewDataset, "processing_software_url", "url"),
                       "processing_software_version", "revision")
              time == AddStandardTime(DictSet(s1, "dataset", ds1))
          IN [value |-> time.value, error |-> time.error,
              steps |-> <<"filename", "Dataset", "check_output", "check_output",
                          "add_standard_time">>]

\* [x.strip() for x in text.split(',')]
StripEach(parts) == [i \in 1..Len(parts) |-> Strip(parts[i])]

DimensionList(text) == StripEach(Split(text, ","))

\* the first of keys the entry lacks, "" when it has them all
RECURSIVE FirstMissing(_, _)
FirstMissing(entry, keys) ==
    IF keys = <<>> THEN ""
    ELSE IF Head(keys) \notin DOMAIN entry THEN Head(keys)
    ELSE FirstMissing(entry, Tail(keys))

\* tempvar.<key> = entry[key] for each key in turn, up to the first key the
\* entry lacks
RECURSIVE CopyAttrs(_, _, _, _)
CopyAttrs(ds, name, entry, keys) ==
    IF keys = <<>> THEN Ok(ds)
    ELSE IF Head(keys) \notin DOMAIN entry THEN Raised(ds, "KeyError", Head(keys))
    ELSE CopyAttrs(SetVarAttr(ds, name, Head(keys), entry[Head(keys)]),
                   name, entry, Tail(keys))

\* the optional attribute: entry['standard_name'] is looked up, and written
\* when it is not the empty string
CopyStandardName(ds, name, entry) ==
    IF "standard_name" \notin DOMAIN entry
    THEN Raised(ds, "KeyError", "standard_name")
    ELSE IF Len(entry.standard_name) > 0
    THEN Ok(SetVarAttr(ds, name, "standard_name", entry.standard_name))
    ELSE Ok(ds)

\* mutant of EntryVariable: the dimensions the dataset lacks are created
EntryVariableCreatingDimensions(ds, entry) ==
    LET dims == DimensionList(entry.dimension)
    IN CreateVariable(
         [ds EXCEPT !.dimensions = @ \cup {dims[i] : i \in 1..Len(dims)}],
         entry.name, entry.type, dims, entry["_FillValue"])

\* self.dataset.createVariable(name, type, dimensions=..., fill_value=...)
EntryVariable(ds, entry) ==
    CreateVariable(ds, entry.name, entry.type, DimensionList(entry.dimension),
                   entry["_FillValue"])

\* amf_var_to_netcdf_var for a name the registry holds
KnownVarToNetcdfVar(s, varname) ==
    LET entry == s.amfvars[varname]
        missing == FirstMissing(entry, <<"name", "type", "dimension", "_FillValue">>)
    IN IF missing # "" THEN Raised(s, "KeyError", missing)
       ELSE
       LET var == EntryVariable(s.dataset, entry)
       IN IF var.error # NoError THEN [var EXCEPT !.value = s]
          ELSE
          LET attrs == CopyAttrs(var.value, entry.name, entry,
                         <<"long_name", "units", "coordinates", "cell_methods",
                           "dimension", "type">>)
          IN IF attrs.error # NoError
             THEN [attrs EXCEPT !.value = DictSet(s, "dataset", attrs.value)]
             ELSE LET std == CopyStandardName(attrs.value, entry.name, entry)
                  IN [std EXCEPT !.value = DictSet(s, "dataset", std.value)]

\* mutant of AmfVarToNetcdfVar: an unknown name is skipped
AmfVarToNetcdfVarSkip(s, varname) ==
    IF "dataset" \notin DOMAIN s
    THEN Raised(s, "AttributeError", "dataset")
    ELSE IF varname \notin DOMAIN s.amfvars
    THEN Ok(s)
    ELSE KnownVarToNetcdfVar(s, varname)

\* amf_var_to_netcdf_var(varname): self.dataset is read first, then
\* self.amfvars[varname], before createVariable is entered
AmfVarToNetcdfVar(s, varname) ==
    IF "dataset" \notin DOMAIN s
    THEN Raised(s, "AttributeError", "dataset")
    ELSE IF varname \notin DOMAIN s.amfvars
    THEN Raised(s, "KeyError", varname)
    ELSE KnownVarToNetcdfVar(s, varname)

\* the fixed attributes of a location variable
LocationAttrs(ds, name, units, long_name, text) ==
    LET a1 == SetVarAttr(ds, name, "units", units)
        a2 == SetVarAttr(a1, name, "standard_name", text)
        a3 == SetVarAttr(a2, name, "long_name", long_name)
        a4 == SetVarAttr(a3, name, "type", "float32")
    IN SetVarAttr(a4, name, "dimension", text)

\* mutant of LandCoordinates' reads: a missing coordinate reads as zero
CoordinateOrZero(store, key) ==
    IF key \in DOMAIN store THEN Ok(<<store[key]>>) ELSE Ok(<<<<<<"0">>>>>>)

\* [self.raw_metadata[key]]: the value written to a location variable (the
\* store's text is taken to read as a number)
Coordinate(store, key) ==
    IF key \in DOMAIN store THEN Ok(<<store[key]>>)
    ELSE Raised(<<>>, "KeyError", key)

\* raw_metadata.pop('platform_longitude', None), then platform_latitude
ConsumeCoordinates(store) ==
    DictPop(DictPop(store, "platform_longitude"), "platform_latitude")

\* land_coordinates()
LandCoordinates(s) ==
    IF "dataset" \notin DOMAIN s
    THEN Raised(s, "AttributeError", "dataset")
    ELSE
    LET lat == CreateDimension(s.dataset, Chr_latitude)
    IN IF lat.error # NoError THEN [lat EXCEPT !.value = s]
    ELSE
    LET lon == CreateDimension(lat.value, Chr_longitude)
    IN IF lon.error # NoError
       THEN [lon EXCEPT !.value = DictSet(s, "dataset", lat.value)]
    ELSE
    LET latitudes == CreateVariable(lon.value, Chr_latitude, "float32",
                                    <<Chr_latitude>>, "default")
    IN IF latitudes.error # NoError
       THEN [latitudes EXCEPT !.value = DictSet(s, "dataset", lon.value)]
    ELSE
    LET ds1 == LocationAttrs(latitudes.value, Chr_latitude, "degrees_north",
                             "Latitude", "latitude")
        longitudes == CreateVariable(ds1, Chr_longitude, "float32",
                                     <<Chr_longitude>>, "default")
    IN IF longitudes.error # NoError
       THEN [longitudes EXCEPT !.value = DictSet(s, "dataset", ds1)]
    ELSE
    LET ds2 == LocationAttrs(longitudes.value, Chr_longitude, "degrees_east",
                             "Longitude", "longitude")
        x == Coordinate(s.raw_metadata, "platform_longitude")
    IN IF x.error # NoError
       THEN [x EXCEPT !.value = DictSet(s, "dataset", ds2)]
    ELSE
    LET ds3 == SetVarData(ds2, Chr_longitude, x.value)
        y == Coordinate(s.raw_metadata, "platform_latitude")
    IN IF y.error # NoError
       THEN [y EXCEPT !.value = DictSet(s, "dataset", ds3)]
    ELSE Ok(DictSet(DictSet(s, "dataset", SetVarData(ds3, Chr_latitude, y.value)),
                    "raw_metadata", ConsumeCoordinates(s.raw_metadata)))

\* mutant of PromoteInstrumentName: the key stays in the store
PromoteInstrumentNameKeep(s) ==
    IF "instrument_name" \in DOMAIN s.raw_metadata
    THEN DictSet(s, "instrument_name", s.raw_metadata.instrument_name[1])
    ELSE s

\* the end of __init__: instrument_name leaves the store for the instance
PromoteInstrumentName(s) ==
    IF "instrument_name" \in DOMAIN s.raw_metadata
    THEN DictSet(DictSet(s, "instrument_name", s.raw_metadata.instrument_name[1]),
                 "raw_metadata", DictPop(s.raw_metadata, "instrument_name"))
    ELSE s

\* __init__(metadatafiles): read_amf_variables raising ends the construction
Init_(rows, files) ==
    LET schema == ReadAmfVariables(rows)
    IN IF schema.raised
       THEN Raised(EmptyDict, "UnboundLocalError", "current_var")
       ELSE Ok(PromoteInstrumentName(
                 [base_time |-> BaseTime, amfvars |-> schema.out,
                  raw_metadata |-> GetMetadata(files)]))

-----------------------------------------------------------------------------
(* The inputs of the instrument's life *)

\* bound: the largest version number asked for
MaxVersion == 12

Versions == {1, MaxVersion}
Products == {<<"o", "3">>}
StartTimes == {<<"2", "0">>}
Tables == {[index |-> <<60, 120>>]}

\* the rows declaring one variable; standard_name is left out, empty or given
EntryRows(variable, name, dimension, standard_name) ==
    <<[Variable |-> variable, Attribute |-> "", Value |-> <<>>],
      [Variable |-> "", Attribute |-> "name", Value |-> name],
      [Variable |-> "", Attribute |-> "type", Value |-> <<"f", "4">>],
      [Variable |-> "", Attribute |-> "dimension", Value |-> dimension],
      [Variable |-> "", Attribute |-> "_FillValue", Value |-> <<"-", "1">>],
      [Variable |-> "", Attribute |-> "long_name", Value |-> <<"L">> \o name],
      [Variable |-> "", Attribute |-> "units", Value |-> <<"m">>],
      [Variable |-> "", Attribute |-> "coordinates", Value |-> <<>>],
      [Variable |-> "", Attribute |-> "cell_methods", Value |-> <<"p">>]>>
    \o CASE standard_name = "absent" -> <<>>
         [] standard_name = "empty" ->
              <<[Variable |-> "", Attribute |-> "standard_name", Value |-> <<>>]>>
         [] standard_name = "given" ->
              <<[Variable |-> "", Attribute |-> "standard_name", Value |-> <<"s">> \o name]>>

DimensionTexts == {Chr_time, Chr_time \o <<",", " ", "z">>}

\* schema sources: two variables, none, or an attribute row with no variable
SchemaSources ==
    { EntryRows("WS", <<"w", "s">>, d, sn) \o EntryRows("T", <<"t", "a">>, Chr_time, "given") :
        d \in DimensionTexts, sn \in {"absent", "empty", "given"} }
    \cup { <<>>, <<[Variable |-> "", Attribute |-> "units", Value |-> <<"m">>]>> }

\* the names asked of amf_var_to_netcdf_var
VarNames == {"WS", "T", "UNKNOWN"}

\* metadata sources: a first file with a header row, and an overriding file
MetaFile1(instrument, platform, coordinates) ==
    <<<<"Variable", <<"V">>>>, <<"title", <<"x">>>>>>
    \o (IF instrument THEN <<<<"instrument_name", <<"i", "1">>>>>> ELSE <<>>)
    \o (IF platform THEN <<<<"platform_name", <<"p">>>>>> ELSE <<>>)
    \o (IF coordinates \in {"both", "longitude"}
        THEN <<<<"platform_longitude", <<"7">>>>>> ELSE <<>>)
    \o (IF coordinates = "both"
        THEN <<<<"platform_latitude", <<"5">>>>>> ELSE <<>>)

MetaFile2 == <<<<"instrument_name", <<"n", "_", "2">>>>, <<"title">>>>

MetaSources ==
    { <<MetaFile1(i, p, c)>> \o o :
        i \in BOOLEAN, p \in BOOLEAN, c \in {"none", "both", "longitude"},
        o \in {<<>>, <<MetaFile2>>} }

-----------------------------------------------------------------------------
(* The instrument's life: construction, then any calls in any order *)

Loaders == <<varfile, line_no, out, current_var, metafiles, file_no, row_no,
             raw_metadata>>

Call(op, arg, r) ==
    [op |-> op, arg |-> arg, error |-> r.error, steps |-> <<>>]

Construct ==
    /\ pc = "new"
    /\ LET r == Init_(varfile, metafiles)
       IN /\ self' = r.value
          /\ pc' = IF r.error = NoError THEN "ready" ELSE "failed"
          /\ call' = Call("__init__", <<>>, r)
    /\ UNCHANGED Loaders

\* the subclass binds self.rawdata
AssignRawdata ==
    /\ pc = "ready"
    /\ \E table \in Tables : self' = DictSet(self, "rawdata", table)
    /\ call' = Call("assign", <<"rawdata">>, Ok(self))
    /\ UNCHANGED <<pc, Loaders>>

\* the subclass binds self.time_coverage_start
AssignTimeCoverageStart ==
    /\ pc = "ready"
    /\ \E start \in StartTimes : self' = DictSet(self, "time_coverage_start", start)
    /\ call' = Call("assign", <<"time_coverage_start">>, Ok(self))
    /\ UNCHANGED <<pc, Loaders>>

CallFilename ==
    /\ pc = "ready"
    /\ \E data_product \in Products, version \in Versions :
         LET r == Filename(self, data_product, version)
         IN /\ self' = r.value
            /\ call' = Call("filename", <<data_product, version>>, r)
    /\ UNCHANGED <<pc, Loaders>>

CallAddStandardTime ==
    /\ pc = "ready"
    /\ LET r == AddStandardTime(self)
       IN /\ self' = r.value
          /\ call' = Call("add_standard_time", <<>>, r)
    /\ UNCHANGED <<pc, Loaders>>

CallSetupDataset ==
    /\ pc = "ready"
    /\ \E product \in Products, version \in Versions, git_ok \in BOOLEAN :
         LET r == SetupDataset(self, product, version, git_ok)
         IN /\ self' = r.value
            /\ call' = [Call("setup_dataset", <<product, version>>, r)
                          EXCEPT !.steps = r.steps]
    /\ UNCHANGED <<pc, Loaders>>

CallAmfVarToNetcdfVar ==
    /\ pc = "ready"
    /\ \E varname \in VarNames :
         LET r == AmfVarToNetcdfVar(self, varname)
         IN /\ self' = r.value
            /\ call' = Call("amf_var_to_netcdf_var", <<varname>>, r)
    /\ UNCHANGED <<pc, Loaders>>

CallLandCoordinates ==
    /\ pc = "ready"
    /\ LET r == LandCoordinates(self)
       IN /\ self' = r.value
          /\ call' = Call("land_coordinates", <<>>, r)
    /\ UNCHANGED <<pc, Loaders>>

Init ==
    /\ pc = "new"
    /\ varfile \in SchemaSources
    /\ line_no = 0
    /\ out = EmptyDict
    /\ current_var = Unset
    /\ metafiles \in MetaSources
    /\ file_no = 1
    /\ row_no = 0
    /\ raw_metadata = EmptyDict
    /\ self = EmptyDict
    /\ call = NoCall

Next ==
    \/ Construct
    \/ AssignRawdata
    \/ AssignTimeCoverageStart
    \/ CallFilename
    \/ CallAddStandardTime
    \/ CallSetupDataset
    \/ CallAmfVarToNetcdfVar
    \/ CallLandCoordinates

Spec == Init /\ [][Next]_vars

-----------------------------------------------------------------------------
(* Properties of the schema registry loader, under SpecSchema *)

Max(S) == CHOOSE x \in S : \A y \in S : y <= x
Min(S) == CHOOSE x \in S : \A y \in S : x <= y

\* the variable rows among the first n rows
VariableRows(n) == {i \in 1..n : varfile[i].Variable # ""}

\* the attribute rows, among the first n, that follow the last declaration
\* of v and precede the next variable row
RowsOfLastDeclaration(v, n) ==
    LET d == Max({i \in VariableRows(n) : varfile[i].Variable = v})
        later == {i \in VariableRows(n) : i > d}
        e == IF later = {} THEN n ELSE Min(later) - 1
    IN (d + 1)..e

\* the rows of I folded into one entry, the last row of an attribute winning
EntryOfRows(I) ==
    [a \in {varfile[i].Attribute : i \in I} |->
        varfile[Max({i \in I : varfile[i].Attribute = a})].Value]

\* the variable whose entry the attribute row i was folded into
VariableOfRow(i) == varfile[Max(VariableRows(i))].Variable

\* C2 as claimed: after the load, an attribute folded into a variable's entry
\* before the variable was declared again is still in the entry.
C2_RedeclarationKeepsAttributes ==
    pc = "returned" =>
        \A i \in 1..Len(varfile), j \in 1..Len(varfile) :
            ( /\ i < j
              /\ varfile[i].Variable = ""
              /\ varfile[j].Variable # ""
              /\ VariableOfRow(i) = varfile[j].Variable )
            => varfile[i].Attribute \in DOMAIN out[varfile[j].Variable]

\* C2 as amended: declaring a variable again starts its entry again.  While
\* the loader has not raised, `out` holds one entry per declared name, and
\* the entry is exactly the attribute rows that follow the last declaration
\* of the name; what was folded in before that declaration is gone.
C2_RedeclarationResetsEntry ==
    pc \in {"reading", "returned"} =>
        /\ DOMAIN out = {varfile[i].Variable : i \in VariableRows(line_no)}
        /\ \A v \in DOMAIN out :
              out[v] = EntryOfRows(RowsOfLastDeclaration(v, line_no))

\* a load that returned a registry in which a re-declared variable lost an
\* attribute it had been given before the re-declaration
C2_Witness ==
    /\ pc = "returned"
    /\ \E i \in 1..Len(varfile), j \in 1..Len(varfile) :
          /\ i < j
          /\ varfile[i].Variable = ""
          /\ varfile[j].Variable # ""
          /\ VariableOfRow(i) = varfile[j].Variable
          /\ varfile[i].Attribute \notin DOMAIN out[varfile[j].Variable]
          /\ out[varfile[j].Variable] # EmptyDict

\* C8: a source whose first row is an attribute row is fatal: once that row
\* is consumed the loader has raised, it never returns a registry, and the
\* row is attached to no entry; with no current variable `out` is empty.
C8_AttributeRowFirstIsFatal ==
    /\ (line_no >= 1 /\ varfile[1].Variable = "") =>
           /\ pc = "raised"
           /\ line_no = 1
           /\ out = EmptyDict
    /\ current_var = Unset => out = EmptyDict
    /\ pc = "raised" => varfile[1].Variable = ""

\* the loader raised on an attribute row that no variable row precedes
C8_Witness ==
    /\ pc = "raised"
    /\ Len(varfile) > 1
    /\ varfile[1].Variable = ""
    /\ current_var = Unset

-----------------------------------------------------------------------------
(* Properties of the metadata merger, under SpecMeta *)

\* the rows of the sources, in source order then row order
RECURSIVE Flatten(_)
Flatten(files) ==
    IF files = <<>> THEN <<>> ELSE Head(files) \o Flatten(Tail(files))

\* a row that counts: exactly two columns, and not the header
Counts(row) == Len(row) = 2 /\ row[1] # "Variable"

\* the store the rows amount to: each key of a counting row, mapped to the
\* whole value (every column after the key) of the last counting row with it
LastRowStore(rows) ==
    LET counting == {i \in 1..Len(rows) : Counts(rows[i])}
    IN [k \in {rows[i][1] : i \in counting} |->
          <<rows[Max({i \in counting : rows[i][1] = k})][2]>>]

\* the rows get_metadata has consumed so far
ConsumedRows ==
    Flatten(SubSeq(metafiles, 1, file_no - 1))
    \o (IF file_no <= Len(metafiles)
        THEN SubSeq(metafiles[file_no], 1, row_no) ELSE <<>>)

\* C6: at every point of the load, and so at its return, the store maps each
\* key to the whole value of the last counting row consumed that carries it;
\* rows that do not count change nothing, and the load always runs to its
\* return.
C6_LastRowWins ==
    /\ pc \in {"merging", "merged"}
    /\ raw_metadata = LastRowStore(ConsumedRows)
    /\ pc = "merged" => raw_metadata = LastRowStore(Flatten(metafiles))

\* a finished load of two files that both carry a key, with different
\* values, beside a header row and a row of another width
C6_Witness ==
    /\ pc = "merged"
    /\ Len(metafiles) = 2
    /\ \E i \in 1..Len(metafiles[1]), j \in 1..Len(metafiles[2]) :
          /\ Counts(metafiles[1][i])
          /\ Counts(metafiles[2][j])
          /\ metafiles[1][i][1] = metafiles[2][j][1]
          /\ metafiles[1][i][2] # metafiles[2][j][2]
          /\ raw_metadata[metafiles[2][j][1]] = <<metafiles[2][j][2]>>
    /\ \E f \in 1..2 : \E i \in 1..Len(metafiles[f]) : ~Counts(metafiles[f][i])

-----------------------------------------------------------------------------
(* Properties of the instrument, under Spec *)

Has(name) == name \in DOMAIN self

\* C1 as claimed: in a setup_dataset call the filename composer runs only
\* after add_standard_time has completed, and never while
\* self.time_coverage_start is unset.  (Stated for an instrument whose
\* metadata names the instrument and the platform, so that the composer
\* gets as far as time_coverage_start.)
C1_TimeBeforeFilename ==
    ( /\ call.op = "setup_dataset"
      /\ Has("instrument_name")
      /\ "platform_name" \in DOMAIN self.raw_metadata ) =>
        \A i \in 1..Len(call.steps) :
            call.steps[i] = "filename" =>
                /\ \E j \in 1..(i - 1) : call.steps[j] = "add_standard_time"
                /\ Has("time_coverage_start")

\* the named variable is unknown to the registry
Unknown(s, varname) == varname \notin DOMAIN s.amfvars

\* C7: amf_var_to_netcdf_var with a name the registry lacks fails and leaves
\* the instance, its Dataset included, exactly as it was; with a Dataset at
\* hand the failure is the lookup's KeyError naming the variable.
C7_UnknownVariableFails ==
    [][(call'.op = "amf_var_to_netcdf_var" /\ Unknown(self, call'.arg[1])) =>
          /\ call'.error # NoError
          /\ self' = self
          /\ Has("dataset") =>
                call'.error = [type |-> "KeyError", what |-> call'.arg[1]]]_vars

\* an unknown name was refused on a Dataset that already holds variables
C7_Witness ==
    /\ call.op = "amf_var_to_netcdf_var"
    /\ Unknown(self, call.arg[1])
    /\ call.error.type = "KeyError"
    /\ Has("dataset")
    /\ DOMAIN self.dataset.variables # {}
    /\ DOMAIN self.amfvars # {}

\* the dimensions the entry of varname names
NamedDimensions(s, varname) ==
    LET dims == DimensionList(s.amfvars[varname].dimension)
    IN {dims[i] : i \in 1..Len(dims)}

Creatable(s, varname) ==
    /\ ~Unknown(s, varname)
    /\ {"name", "type", "dimension", "_FillValue"} \subseteq DOMAIN s.amfvars[varname]

\* setup_dataset ran to its end on the current Dataset
SetUp(s) ==
    /\ "dataset" \in DOMAIN s
    /\ "time_coverage_start" \in DOMAIN s.dataset.attrs

\* C3 as claimed: after amf_var_to_netcdf_var on a known entry, on a Dataset
\* that setup_dataset completed, every dimension the entry names exists on
\* the Dataset, and the call did not fail for a missing dimension.
C3_CreatesMissingDimensions ==
    ( /\ call.op = "amf_var_to_netcdf_var"
      /\ SetUp(self)
      /\ Creatable(self, call.arg[1]) ) =>
        /\ NamedDimensions(self, call.arg[1]) \subseteq self.dataset.dimensions
        /\ call.error.type # "ValueError"

\* C3 as amended: amf_var_to_netcdf_var creates no dimension and re-creates
\* none: the Dataset's dimension set is as before the call.  The call fails
\* with createVariable's missing-dimension error exactly when its entry
\* names a dimension the Dataset lacks, and then creates no variable.
C3_CreatesNoDimension ==
    [][(call'.op = "amf_var_to_netcdf_var" /\ Has("dataset")) =>
          /\ self'.dataset.dimensions = self.dataset.dimensions
          /\ (call'.error = [type |-> "ValueError", what |-> "createVariable"])
               <=> ( /\ Creatable(self, call'.arg[1])
                     /\ ~(NamedDimensions(self, call'.arg[1])
                            \subseteq self.dataset.dimensions) )
          /\ call'.error.type = "ValueError" => self' = self]_vars

\* a call failed for a missing dimension although the Dataset held the
\* other dimension its entry names
C3_Witness ==
    /\ call.op = "amf_var_to_netcdf_var"
    /\ call.error = [type |-> "ValueError", what |-> "createVariable"]
    /\ Chr_time \in self.dataset.dimensions
    /\ Chr_time \in NamedDimensions(self, call.arg[1])
    /\ \E v \in DOMAIN self.amfvars :
          self.amfvars[v].name \in DOMAIN self.dataset.variables

\* C4 as claimed: on a Dataset that setup_dataset completed, when
\* createVariable accepts the entry, an entry whose standard_name is empty or
\* undeclared yields a variable with the six copied attributes and no
\* standard_name, and a non-empty standard_name is written as the schema
\* gives it.
C4_StandardNameOptional ==
    ( /\ call.op = "amf_var_to_netcdf_var"
      /\ SetUp(self)
      /\ Creatable(self, call.arg[1])
      /\ call.error.type \notin {"ValueError", "RuntimeError"} ) =>
        LET entry == self.amfvars[call.arg[1]]
            given == "standard_name" \in DOMAIN entry /\ entry.standard_name # <<>>
        IN /\ call.error = NoError
           /\ entry.name \in DOMAIN self.dataset.variables
           /\ LET attrs == self.dataset.variables[entry.name].attrs
              IN /\ \A a \in {"long_name", "units", "coordinates", "cell_methods",
                              "dimension", "type"} :
                        a \in DOMAIN attrs /\ attrs[a] = entry[a]
                 /\ IF given
                    THEN "standard_name" \in DOMAIN attrs
                         /\ attrs.standard_name = entry.standard_name
                    ELSE "standard_name" \notin DOMAIN attrs

\* the store holds neither coordinate
Consumed(s) ==
    /\ "platform_latitude" \notin DOMAIN s.raw_metadata
    /\ "platform_longitude" \notin DOMAIN s.raw_metadata

\* going from s to t, no value was written to a location variable
NothingWritten(s, t) ==
    \A v \in {Chr_latitude, Chr_longitude} :
        v \in DOMAIN t.dataset.variables =>
            \/ t.dataset.variables[v].data = <<>>
            \/ /\ "dataset" \in DOMAIN s
               /\ v \in DOMAIN s.dataset.variables
               /\ t.dataset.variables[v].data = s.dataset.variables[v].data

\* C5: land_coordinates is one-shot.  A call that succeeds leaves the store
\* without platform_latitude and platform_longitude; a store without them
\* stays without them whatever is called; and on such a store every
\* land_coordinates call fails and writes no latitude or longitude value.
C5_OneShot ==
    [][pc = "ready" =>
          /\ (call'.op = "land_coordinates" /\ call'.error = NoError) =>
                Consumed(self')
          /\ Consumed(self) => Consumed(self')
          /\ (call'.op = "land_coordinates" /\ Consumed(self)) =>
                /\ call'.error # NoError
                /\ Has("dataset") => NothingWritten(self, self')]_vars

\* the coordinates the sources supplied were consumed by a first call, and a
\* later call, on a new Dataset, failed on the lookup and left the new
\* location variables without data
C5_Witness ==
    /\ call.op = "land_coordinates"
    /\ call.error = [type |-> "KeyError", what |-> "platform_longitude"]
    /\ {"platform_latitude", "platform_longitude"}
          \subseteq DOMAIN LastRowStore(Flatten(metafiles))
    /\ Consumed(self)
    /\ Chr_longitude \in DOMAIN self.dataset.variables
    /\ self.dataset.variables[Chr_longitude].data = <<>>

\* the value of a text of decimal digits, -1 when it is not one
RECURSIVE DecimalValue(_)
DecimalValue(text) ==
    IF text = <<>> \/ \E i \in 1..Len(text) : \A d \in 1..10 : text[i] # Digits[d]
    THEN 0 - 1
    ELSE LET last == (CHOOSE d \in 1..10 : Digits[d] = text[Len(text)]) - 1
         IN IF Len(text) = 1 THEN last
            ELSE 10 * DecimalValue(SubSeq(text, 1, Len(text) - 1)) + last

\* C9: a filename call never changes the metadata store; when it returns it
\* changes nothing but self.outfile, which reads instrument_name, the first
\* field of platform_name, time_coverage_start and data_product, each
\* followed by one underscore, then 'v', the version in decimal without
\* leading zeros, and '.nc': a function of those five inputs alone.
C9_FilenameComposition ==
    [][call'.op = "filename" =>
          /\ self'.raw_metadata = self.raw_metadata
          /\ call'.error # NoError => self' = self
          /\ call'.error = NoError =>
                LET head == self.instrument_name \o <<"_">>
                            \o self.raw_metadata.platform_name[1] \o <<"_">>
                            \o self.time_coverage_start \o <<"_">>
                            \o call'.arg[1] \o <<"_", "v">>
                    name == self'.outfile
                    digits == SubSeq(name, Len(head) + 1, Len(name) - 3)
                IN /\ self' = DictSet(self, "outfile", name)
                   /\ SubSeq(name, 1, Len(head)) = head
                   /\ SubSeq(name, Len(name) - 2, Len(name)) = <<".", "n", "c">>
                   /\ DecimalValue(digits) = call'.arg[2]
                   /\ Len(digits) = 1 \/ digits[1] # "0"]_vars

\* a filename call returned for a two-digit version and an instrument name
\* that itself holds an underscore
C9_Witness ==
    /\ call.op = "filename"
    /\ call.error = NoError
    /\ call.arg[2] >= 10
    /\ \E i \in 1..Len(self.instrument_name) : self.instrument_name[i] = "_"
    /\ Has("outfile")

\* some source supplies instrument_name
Supplied == "instrument_name" \in DOMAIN LastRowStore(Flatten(metafiles))

\* C10: once constructed, and whatever is called afterwards, the store does
\* not hold instrument_name.  When a source supplied it the identity field is
\* the first field of the last value written; when none did, the instance has
\* no identity field.  Construction leaves every other key as merged, and
\* fails only for the schema, never for the metadata.
C10_InstrumentNamePromoted ==
    /\ pc = "ready" =>
          /\ "instrument_name" \notin DOMAIN self.raw_metadata
          /\ IF Supplied
             THEN /\ Has("instrument_name")
                  /\ self.instrument_name =
                        LastRowStore(Flatten(metafiles)).instrument_name[1]
             ELSE ~Has("instrument_name")
          /\ call.op = "__init__" =>
                self.raw_metadata =
                    DictPop(LastRowStore(Flatten(metafiles)), "instrument_name")
    /\ pc = "failed" => (varfile # <<>> /\ varfile[1].Variable = "")

\* an instrument whose name the second source overrode, after its
\* coordinates were consumed by a later call
C10_Witness ==
    /\ pc = "ready"
    /\ Len(metafiles) = 2
    /\ "instrument_name" \in DOMAIN LastRowStore(Flatten(<<metafiles[1]>>))
    /\ self.instrument_name = <<"n", "_", "2">>
    /\ call.op = "land_coordinates"
    /\ call.error = NoError

====
